---- MODULE Spec2Model ----
(***************************************************************************)
(* Model of torchmdnet/datasets/ace.py: the Ace dataset.                   *)
(*                                                                         *)
(* sample_iter flattens the raw per-molecule archives into a stream of     *)
(* conformation records; process consumes that stream twice (a counting    *)
(* pass and a writing pass), packs it into eight flat memory-mapped files  *)
(* written under temporary names and renames them to their final names;    *)
(* __init__ maps the eight final files read-only and checks three          *)
(* assertions; get(idx) slices one conformation out of the mapped files.   *)
(*                                                                         *)
(* Numbers: a float is modelled by an integer; the float32 values are the  *)
(* even ones, the float64 values are all of them, and F32 rounds to the    *)
(* nearest float32 (ties to even).  A row of a (n, 3) array is modelled by *)
(* one integer v standing for the vector (v, 0, 0).                        *)
(***************************************************************************)
EXTENDS Integers, Sequences, FiniteSets, TLC

VARIABLES
    archive,        \* the raw input: a sequence of files, each a sequence of molecules
    cfg,            \* the constructor's arguments
    tmp,            \* the "<name>.tmp" files on disk: file key -> contents
    final,          \* the final store files on disk: file key -> contents
    pc,             \* the position of the constructing process in __init__/process
    status,         \* "idle", "running", "failed", "killed" or "open"
    i_rec,          \* records consumed from the current sample_iter() (i_conf of enumerate)
    num_all_confs,  \* process: counter of the counting pass
    num_all_atoms,  \* process: counter of the counting pass
    i_atom,         \* process: running atom offset of the writing pass
    step,           \* index of the next memmap call, flush or rename within its block
    ran,            \* whether the current construction has invoked process()
    runs,           \* number of constructions started so far
    got,            \* the result of the last get(idx) on the open reader
    procs           \* concurrent constructions: process -> its position and counters

vars == <<archive, cfg, tmp, final, pc, status, i_rec, num_all_confs,
          num_all_atoms, i_atom, step, ran, runs, got, procs>>

\* Python's None for an optional number: the empty sequence; a number v is <<v>>.
None == <<>>
Some(v) == <<v>>

\* No hook supplied (pre_filter=None, pre_transform=None).
NoHook == "None"

----------------------------------------------------------------------------
(* Bounds of the model.                                                    *)

MaxMols == 2        \* molecules in the whole archive
MaxStride == 2      \* largest subsample_molecules argument
MaxRuns == 2        \* constructions of a reader in one behaviour

----------------------------------------------------------------------------
(* Sequence helpers.                                                       *)

RECURSIVE Zeros(_)
Zeros(n) == IF n <= 0 THEN <<>> ELSE <<0>> \o Zeros(n - 1)

RECURSIVE Repeat(_, _)
Repeat(v, n) == IF n <= 0 THEN <<>> ELSE <<v>> \o Repeat(v, n - 1)

RECURSIVE SumSeq(_)
SumSeq(s) == IF s = <<>> THEN 0 ELSE Head(s) + SumSeq(Tail(s))

Abs(v) == IF v < 0 THEN -v ELSE v

Min(a, b) == IF a < b THEN a ELSE b

Max(a, b) == IF a > b THEN a ELSE b

----------------------------------------------------------------------------
(* Number conversions.                                                     *)

\* A slip of the element type: an unsigned byte.
ToInt8_Unsigned(v) == v % 256

\* tensor.to(pt.int8) and the int8 memmap: two's-complement wrap to -128..127.
ToInt8(v) == ((v + 128) % 256) - 128

\* Conversion of a float64 to float32: the float32 values are the even
\* integers; an odd value lies half way and goes to the neighbour whose
\* quotient by 2 is even.
F32(v) ==
    IF v % 2 = 0 THEN v
    ELSE IF ((v - 1) \div 2) % 2 = 0 THEN v - 1 ELSE v + 1

----------------------------------------------------------------------------
(* The raw archives.                                                       *)

GoodUnits ==
    [positions |-> "A", formation_energy |-> "eV", forces |-> "eV/A",
     partial_charges |-> "e", dipole_moment |-> "e*A"]

\* A conformation group of the archive.  has_energy says whether the
\* "formation_energy" dataset is present.
Conf(has_energy, units, positions, energy, forces, partial_charges, dipole) ==
    [has_energy |-> has_energy, units |-> units, positions |-> positions,
     formation_energy |-> energy, forces |-> forces,
     partial_charges |-> partial_charges, dipole_moment |-> dipole]

Mol(atomic_numbers, formal_charges, conformations) ==
    [atomic_numbers |-> atomic_numbers, formal_charges |-> formal_charges,
     conformations |-> conformations]

\* Two atoms, one good conformation (forces of magnitude 0 and 2).
MolA ==
    Mol(<<8, 1>>, <<0, 0>>,
        <<Conf(TRUE, GoodUnits, <<2, 4>>, 2, <<0, -2>>, <<2, -2>>, <<0, 2, 0>>)>>)

\* Three atoms, one conformation of a failed calculation: no energy.
MolB ==
    Mol(<<6, 1, 1>>, <<1, 0, 0>>,
        <<Conf(FALSE, GoodUnits, <<2, 2, 2>>, 0, <<4, 4, 4>>, <<0, 0, 0>>, <<0, 0, 0>>)>>)

\* One atom, two conformations: energies that are not float32 values, small
\* forces, formal charge -1.
MolC ==
    Mol(<<17>>, <<-1>>,
        <<Conf(TRUE, GoodUnits, <<6>>, 3, <<0>>, <<-2>>, <<2, 0, 0>>),
          Conf(TRUE, GoodUnits, <<8>>, 1, <<-4>>, <<-2>>, <<0, 0, 2>>)>>)

\* One atom whose atomic number and formal charge do not fit 8 signed bits;
\* a failed calculation (no energy, and a wrong unit tag that is never
\* looked at), then a good conformation.
MolD ==
    Mol(<<200>>, <<130>>,
        <<Conf(FALSE, [GoodUnits EXCEPT !.positions = "nm"],
               <<4>>, 0, <<2>>, <<2>>, <<2, 2, 2>>),
          Conf(TRUE, GoodUnits, <<4>>, 4, <<2>>, <<2>>, <<2, 2, 2>>)>>)

\* A wrong unit tag on the forces of a conformation with large forces.
MolE ==
    Mol(<<1>>, <<0>>,
        <<Conf(TRUE, [GoodUnits EXCEPT !.forces = "kcal/mol/A"],
               <<2>>, 2, <<6>>, <<0>>, <<0, 0, 0>>)>>)

\* A wrong shape: one row of positions for two atoms.
MolF ==
    Mol(<<1, 1>>, <<0, 0>>,
        <<Conf(TRUE, GoodUnits, <<2>>, 2, <<0, 0>>, <<0, 0>>, <<0, 0, 0>>)>>)

Mols == {MolA, MolB, MolC, MolD, MolE, MolF}

RECURSIVE SeqsUpTo(_, _)
SeqsUpTo(S, n) ==
    IF n = 0 THEN {<<>>}
    ELSE LET shorter == SeqsUpTo(S, n - 1)
         IN  shorter \cup {Append(s, x) : s \in shorter, x \in S}

\* The sequence of molecules s cut into files after the positions `cuts`.
RECURSIVE Chop(_, _)
Chop(s, cuts) ==
    IF cuts = {} THEN <<s>>
    ELSE LET c == CHOOSE x \in cuts : \A y \in cuts : x <= y
         IN  <<SubSeq(s, 1, c)>>
             \o Chop(SubSeq(s, c + 1, Len(s)), {x - c : x \in cuts \ {c}})

\* What raw_paths resolves to: one file, or the .h5 files of a directory
\* (none, or some with molecules in them).
Archives ==
    {<<>>} \cup UNION {{Chop(s, cuts) : cuts \in SUBSET (1..(Len(s) - 1))} :
                         s \in SeqsUpTo(Mols, MaxMols)}

----------------------------------------------------------------------------
(* sample_iter.                                                            *)

\* Truth value of `if self.max_gradient:`: None and 0 are false.
Truthy(opt) == opt # None /\ opt[1] # 0

\* pt.tensor(..., dtype=pt.float32) of an array of the archive.
ToFloat32(rows) == [k \in 1..Len(rows) |-> F32(rows[k])]

\* -pt.tensor(conf["forces"][...], dtype=pt.float32)
Negate(rows) == [k \in 1..Len(rows) |-> -F32(rows[k])]

\* neg_dy.norm(dim=1).max(), for rows (v, 0, 0).
RECURSIVE MaxNorm(_)
MaxNorm(rows) ==
    IF Len(rows) = 1 THEN Abs(rows[1])
    ELSE Max(Abs(Head(rows)), MaxNorm(Tail(rows)))

\* The unit and shape assertions on a conformation that has an energy.
Valid(z, conf) ==
    /\ conf.units.positions = "A"
    /\ Len(conf.positions) = Len(z)
    /\ conf.units.formation_energy = "eV"
    /\ conf.units.forces = "eV/A"
    /\ Len(conf.forces) = Len(conf.positions)
    /\ conf.units.partial_charges = "e"
    /\ Len(conf.partial_charges) = Len(z)
    /\ conf.units.dipole_moment = "e*A"
    /\ Len(conf.dipole_moment) = 3

\* The caller's hooks, as opaque functions of the record.
PreFilters == {NoHook, "multi_atom"}
PreTransforms == {NoHook, "first_atom"}

\* pre_filter(data): "multi_atom" accepts the records of more than one atom.
ApplyFilter(hook, data) == Len(data.z) > 1

\* pre_transform(data): "first_atom" keeps the first atom of the record;
\* "shift_energy" adds 2 to its energy.
ApplyTransform(hook, data) ==
    IF hook = "shift_energy" THEN [data EXCEPT !.y = @ + 2]
    ELSE [data EXCEPT !.z = SubSeq(data.z, 1, 1), !.pos = SubSeq(data.pos, 1, 1),
                      !.neg_dy = SubSeq(data.neg_dy, 1, 1), !.pq = SubSeq(data.pq, 1, 1)]

\* Whether the gradient cutoff drops a conformation.
DropsLargeGradient(c, neg_dy) ==
    Truthy(c.max_gradient) /\ MaxNorm(neg_dy) > c.max_gradient[1]

\* A slip of the test for failed calculations: every conformation is taken
\* to have an energy.
HasEnergy_Always(conf) == TRUE

\* "formation_energy" in conf
HasEnergy(conf) == conf.has_energy

\* A slip of the statement order: the gradient cutoff and the filter hook
\* come before the unit and shape assertions.
ConfOutcome_CutoffFirst(z, q, conf, c) ==
    IF ~HasEnergy(conf) THEN [kind |-> "skip"]
    ELSE LET neg_dy == Negate(conf.forces)
             data == [z |-> z, pos |-> ToFloat32(conf.positions),
                      y |-> conf.formation_energy, neg_dy |-> neg_dy, q |-> q,
                      pq |-> ToFloat32(conf.partial_charges),
                      dp |-> ToFloat32(conf.dipole_moment)]
         IN  IF DropsLargeGradient(c, neg_dy) THEN [kind |-> "skip"]
             ELSE IF c.pre_filter # NoHook /\ ~ApplyFilter(c.pre_filter, data)
                  THEN [kind |-> "skip"]
             ELSE IF ~Valid(z, conf) THEN [kind |-> "error"]
             ELSE [kind |-> "yield",
                   data |-> IF c.pre_transform # NoHook
                            THEN ApplyTransform(c.pre_transform, data)
                            ELSE data]

\* A slip of the statement order: the transform hook comes before the
\* filter hook.
ConfOutcome_TransformFirst(z, q, conf, c) ==
    IF ~HasEnergy(conf) THEN [kind |-> "skip"]
    ELSE IF ~Valid(z, conf) THEN [kind |-> "error"]
    ELSE LET neg_dy == Negate(conf.forces)
             data == [z |-> z, pos |-> ToFloat32(conf.positions),
                      y |-> conf.formation_energy, neg_dy |-> neg_dy, q |-> q,
                      pq |-> ToFloat32(conf.partial_charges),
                      dp |-> ToFloat32(conf.dipole_moment)]
             changed == IF c.pre_transform # NoHook
                        THEN ApplyTransform(c.pre_transform, data)
                        ELSE data
         IN  IF DropsLargeGradient(c, neg_dy) THEN [kind |-> "skip"]
             ELSE IF c.pre_filter # NoHook /\ ~ApplyFilter(c.pre_filter, changed)
                  THEN [kind |-> "skip"]
             ELSE [kind |-> "yield", data |-> changed]

\* The body of the loop over the conformations of a molecule: "skip" for a
\* continue, "error" for a failed assertion, "yield" with the record.
ConfOutcome(z, q, conf, c) ==
    IF ~HasEnergy(conf) THEN [kind |-> "skip"]
    ELSE IF ~Valid(z, conf) THEN [kind |-> "error"]
    ELSE LET neg_dy == Negate(conf.forces)
             data == [z |-> z, pos |-> ToFloat32(conf.positions),
                      y |-> conf.formation_energy, neg_dy |-> neg_dy, q |-> q,
                      pq |-> ToFloat32(conf.partial_charges),
                      dp |-> ToFloat32(conf.dipole_moment)]
         IN  IF DropsLargeGradient(c, neg_dy) THEN [kind |-> "skip"]
             ELSE IF c.pre_filter # NoHook /\ ~ApplyFilter(c.pre_filter, data)
                  THEN [kind |-> "skip"]
             ELSE [kind |-> "yield",
                   data |-> IF c.pre_transform # NoHook
                            THEN ApplyTransform(c.pre_transform, data)
                            ELSE data]

\* A stream is the records yielded so far and whether an assertion then failed.
RECURSIVE ConfsStream(_, _, _, _)
ConfsStream(z, q, confs, c) ==
    IF confs = <<>> THEN [recs |-> <<>>, err |-> FALSE]
    ELSE LET o == ConfOutcome(z, q, Head(confs), c)
         IN  IF o.kind = "error" THEN [recs |-> <<>>, err |-> TRUE]
             ELSE LET rest == ConfsStream(z, q, Tail(confs), c)
                  IN  IF o.kind = "skip" THEN rest
                      ELSE [recs |-> <<o.data>> \o rest.recs, err |-> rest.err]

\* A slip of the stride test: positions counted from 1.
KeepsMolecule_OneBased(i_mol, c) == (i_mol + 1) % c.subsample_molecules = 0

\* Whether the molecule at 0-based position i_mol of its file is kept.
KeepsMolecule(i_mol, c) == i_mol % c.subsample_molecules = 0

\* The loop over the molecules of one file, from 0-based position i_mol.
RECURSIVE MolsStream(_, _, _)
MolsStream(mols, i_mol, c) ==
    IF mols = <<>> THEN [recs |-> <<>>, err |-> FALSE]
    ELSE LET mol == Head(mols)
             here == IF KeepsMolecule(i_mol, c)
                     THEN ConfsStream(mol.atomic_numbers, SumSeq(mol.formal_charges),
                                      mol.conformations, c)
                     ELSE [recs |-> <<>>, err |-> FALSE]
         IN  IF here.err THEN here
             ELSE LET rest == MolsStream(Tail(mols), i_mol + 1, c)
                  IN  [recs |-> here.recs \o rest.recs, err |-> rest.err]

\* The loop over raw_paths.
RECURSIVE FilesStream(_, _)
FilesStream(files, c) ==
    IF files = <<>> THEN [recs |-> <<>>, err |-> FALSE]
    ELSE LET here == MolsStream(Head(files), 0, c)
         IN  IF here.err THEN here
             ELSE LET rest == FilesStream(Tail(files), c)
                  IN  [recs |-> here.recs \o rest.recs, err |-> rest.err]

\* sample_iter(): the whole stream over archive a with arguments c.
sample_iter(a, c) ==
    IF ~(c.subsample_molecules > 0) THEN [recs |-> <<>>, err |-> TRUE]
    ELSE FilesStream(a, c)

----------------------------------------------------------------------------
(* The files of the store.                                                 *)

\* processed_file_names, in the order of the list (and of the renames).
FileOrder == <<"idx", "z", "pos", "y", "neg_dy", "q", "pq", "dp">>

FileNames == {FileOrder[k] : k \in 1..Len(FileOrder)}

NoFiles == [k \in {} |-> <<>>]

\* The directory with file k created or replaced by contents c.
WithFile(dir, k, c) == [x \in DOMAIN dir \cup {k} |-> IF x = k THEN c ELSE dir[x]]

\* The directory without file k.
WithoutFile(dir, k) == [x \in DOMAIN dir \ {k} |-> dir[x]]

\* A slip of processed_file_names: it lists one name more than process()
\* produces, so the check never finds every file.
FilesExist_Extra(dir) == \A k \in FileNames \cup {"mol"} : k \in DOMAIN dir

\* The check of the base class, files_exist(self.processed_paths): process()
\* is skipped when every processed file is there.
FilesExist(dir) == \A k \in FileNames : k \in DOMAIN dir

\* np.memmap(name + ".tmp", mode="w+", shape=...): the zero-filled contents
\* of temp file k for the counted num_all_confs and num_all_atoms.
Allocated(k, confs, atoms) ==
    CASE k = "idx" -> Zeros(confs + 1)
      [] k \in {"z", "pos", "neg_dy", "pq"} -> Zeros(atoms)
      [] k \in {"y", "q"} -> Zeros(confs)
      [] k = "dp" -> Repeat(<<0, 0, 0>>, confs)

----------------------------------------------------------------------------
(* numpy indexing.                                                         *)

\* arr[i] for an integer i: negative i counts from the end; out of range
\* is an IndexError.
InRange(arr, i) == -Len(arr) <= i /\ i < Len(arr)

Position(arr, i) == IF i < 0 THEN Len(arr) + i + 1 ELSE i + 1

\* The bounds of arr[lo:hi] for lo, hi >= 0, clipped to the array.
SliceLo(arr, lo) == Min(lo, Len(arr))
SliceHi(arr, lo, hi) == Max(SliceLo(arr, lo), Min(hi, Len(arr)))

\* arr[lo:hi]
Slice(arr, lo, hi) == SubSeq(arr, SliceLo(arr, lo) + 1, SliceHi(arr, lo, hi))

\* arr[lo:hi] = vals: the values are broadcast to the slice, which needs as
\* many values as the slice is long, or one value; otherwise a ValueError.
CanAssign(arr, lo, hi, vals) ==
    LET n == SliceHi(arr, lo, hi) - SliceLo(arr, lo)
    IN  Len(vals) = n \/ Len(vals) = 1

SliceAssign(arr, lo, hi, vals) ==
    LET a == SliceLo(arr, lo)
        b == SliceHi(arr, lo, hi)
    IN  [k \in 1..Len(arr) |->
            IF a < k /\ k <= b
            THEN (IF Len(vals) = 1 THEN vals[1] ELSE vals[k - a])
            ELSE arr[k]]

\* arr[i] = v for an index i in range.
SetItem(arr, i, v) == [arr EXCEPT ![Position(arr, i)] = v]

----------------------------------------------------------------------------
(* process: the statements of the writing pass.                            *)

\* A statement acts on [ok, f]: the temp files f, and whether no statement
\* has raised so far.  What was written before an exception stays written.

\* f[k][i] = v
SetStmt(s, k, i, v) ==
    IF ~s.ok THEN s
    ELSE IF InRange(s.f[k], i)
         THEN [ok |-> TRUE, f |-> [s.f EXCEPT ![k] = SetItem(s.f[k], i, v)]]
         ELSE [ok |-> FALSE, f |-> s.f]

\* f[k][lo:hi] = vals
SliceStmt(s, k, lo, hi, vals) ==
    IF ~s.ok THEN s
    ELSE IF CanAssign(s.f[k], lo, hi, vals)
         THEN [ok |-> TRUE, f |-> [s.f EXCEPT ![k] = SliceAssign(s.f[k], lo, hi, vals)]]
         ELSE [ok |-> FALSE, f |-> s.f]

\* i_next_atom = i_atom + data.z.shape[0]
NextAtom(atom, data) == atom + Len(data.z)

\* data.z.to(pt.int8)
ZToInt8(z) == [k \in 1..Len(z) |-> ToInt8(z[k])]

\* The body of the writing loop for record `data`, conformation i_conf,
\* atom offset atom.
WriteRecord(f, data, i_conf, atom) ==
    LET next == NextAtom(atom, data)
        s0 == {[ok |-> TRUE, f |-> f]}
        s1 == {SetStmt(s, "idx", i_conf, atom) : s \in s0}
        s2 == {SliceStmt(s, "z", atom, next, ZToInt8(data.z)) : s \in s1}
        s3 == {SliceStmt(s, "pos", atom, next, data.pos) : s \in s2}
        s4 == {SetStmt(s, "y", i_conf, data.y) : s \in s3}
        s5 == {SliceStmt(s, "neg_dy", atom, next, data.neg_dy) : s \in s4}
        s6 == {SetStmt(s, "q", i_conf, ToInt8(data.q)) : s \in s5}
        s7 == {SliceStmt(s, "pq", atom, next, data.pq) : s \in s6}
        s8 == {SetStmt(s, "dp", i_conf, data.dp) : s \in s7}
    IN  CHOOSE s \in s8 : TRUE

\* A slip of the last offset: the number of conformations is stored.
LastOffset_Confs(confs, atoms) == confs

\* The value of idx_mm[-1] = num_all_atoms.
LastOffset(confs, atoms) == atoms

----------------------------------------------------------------------------
(* __init__ after the build: mapping the store, and get.                   *)

\* np.memmap(name, mode="r", dtype=...) of a file: an empty file cannot be
\* mapped.
CanMap(dir, k) == Len(dir[k]) > 0

\* np.memmap(name, mode="r", shape=(rows, 3)) of a file: the file has to
\* hold at least `rows` rows; the map is of the first `rows` of them.
CanMapRows(dir, k, rows) == rows > 0 /\ Len(dir[k]) >= rows

\* A slip of the assertions: idx_mm[0] is not checked.
OpenAsserts_NoFirst(dir) ==
    /\ dir["idx"][Len(dir["idx"])] = Len(dir["z"])
    /\ Len(dir["idx"]) = Len(dir["y"]) + 1

\* The three assertions of __init__.
OpenAsserts(dir) ==
    /\ dir["idx"][1] = 0
    /\ dir["idx"][Len(dir["idx"])] = Len(dir["z"])
    /\ Len(dir["idx"]) = Len(dir["y"]) + 1

\* Whether __init__ gets through the maps and the assertions.
OpenOK(dir) ==
    /\ CanMap(dir, "idx")
    /\ CanMap(dir, "z")
    /\ CanMapRows(dir, "pos", Len(dir["z"]))
    /\ CanMap(dir, "y")
    /\ CanMapRows(dir, "neg_dy", Len(dir["z"]))
    /\ CanMap(dir, "q")
    /\ CanMap(dir, "pq")
    /\ CanMapRows(dir, "dp", Len(dir["y"]))
    /\ OpenAsserts(dir)

\* len(): len(self.y_mm)
StoreLen(dir) == Len(dir["y"])

\* The mapped view of file k: the (rows, 3) maps hold the rows asked for.
Mapped(dir, k) ==
    CASE k \in {"pos", "neg_dy"} -> SubSeq(dir[k], 1, Len(dir["z"]))
      [] k = "dp" -> SubSeq(dir[k], 1, Len(dir["y"]))
      [] OTHER -> dir[k]

\* A slip of the end of the slice: one atom too many.
AtomsHi_Inclusive(dir, i) == dir["idx"][Position(dir["idx"], i + 1)] + 1

\* atoms = slice(self.idx_mm[idx], self.idx_mm[idx + 1])
AtomsLo(dir, i) == dir["idx"][Position(dir["idx"], i)]
AtomsHi(dir, i) == dir["idx"][Position(dir["idx"], i + 1)]

NoGet == [idx |-> 0, err |-> "none"]

\* get(idx): an IndexError, or the record.
GetResult(dir, i) ==
    IF ~InRange(dir["idx"], i) \/ ~InRange(dir["idx"], i + 1)
       \/ ~InRange(dir["y"], i) \/ ~InRange(dir["q"], i)
       \/ ~InRange(Mapped(dir, "dp"), i)
    THEN [idx |-> i, err |-> "IndexError"]
    ELSE LET lo == AtomsLo(dir, i)
             hi == AtomsHi(dir, i)
         IN  [idx |-> i, err |-> "ok",
              data |-> [z |-> Slice(dir["z"], lo, hi),
                        pos |-> Slice(Mapped(dir, "pos"), lo, hi),
                        y |-> F32(dir["y"][Position(dir["y"], i)]),
                        neg_dy |-> Slice(Mapped(dir, "neg_dy"), lo, hi),
                        q |-> dir["q"][Position(dir["q"], i)],
                        pq |-> Slice(dir["pq"], lo, hi),
                        dp |-> Mapped(dir, "dp")[Position(Mapped(dir, "dp"), i)]]]

----------------------------------------------------------------------------
(* The constructing process.                                               *)

\* A slip of the program order: the renames come right after the
\* allocation, and the writing pass is lost.
NextBlock_NoWrite(p) ==
    CASE p = "count" -> "alloc"
      [] p = "alloc" -> "rename"
      [] p = "write" -> "fin"
      [] p = "fin" -> "flush"
      [] p = "flush" -> "rename"
      [] p = "rename" -> "opening"

\* A slip of the program order: idx_mm[-1] and the assertion come after
\* the renames.
NextBlock_AssertLast(p) ==
    CASE p = "count" -> "alloc"
      [] p = "alloc" -> "write"
      [] p = "write" -> "flush"
      [] p = "flush" -> "rename"
      [] p = "rename" -> "fin"
      [] p = "fin" -> "opening"

\* The blocks of process() and of __init__ after it, in program order:
\* counting pass, the eight np.memmap(..., mode="w+"), writing pass,
\* idx_mm[-1] and the assertion, the eight flushes, the eight renames, and
\* the maps and assertions of __init__.
NextBlock(p) ==
    CASE p = "count" -> "alloc"
      [] p = "alloc" -> "write"
      [] p = "write" -> "fin"
      [] p = "fin" -> "flush"
      [] p = "flush" -> "rename"
      [] p = "rename" -> "opening"

\* The max_gradient arguments: unset, 0, and one equal to the magnitude 2
\* of a force of the archives (below the magnitudes 4 and 6 of others).
Cutoffs == {None, Some(0), Some(2)}

Configs ==
    [max_gradient : Cutoffs,
     subsample_molecules : 0..MaxStride,
     pre_filter : PreFilters,
     pre_transform : PreTransforms]

\* No concurrent construction.
NoProcs == <<>>

Init ==
    /\ archive \in Archives
    /\ cfg \in Configs
    /\ tmp = NoFiles
    /\ final = NoFiles
    /\ pc = "count"
    /\ status = "idle"
    /\ i_rec = 0
    /\ num_all_confs = 0
    /\ num_all_atoms = 0
    /\ i_atom = 0
    /\ step = 0
    /\ ran = FALSE
    /\ runs = 0
    /\ got = NoGet
    /\ procs = NoProcs

\* A slip of process(): the counters of the counting pass outlive the
\* construction, and a later construction counts on from them.
Construct_NoReset ==
    /\ status \in {"idle", "failed", "killed", "open"}
    /\ runs < MaxRuns
    /\ runs' = runs + 1
    /\ status' = "running"
    /\ got' = NoGet
    /\ i_rec' = 0
    /\ i_atom' = 0
    /\ step' = 0
    /\ IF FilesExist(final)
       THEN pc' = "opening" /\ ran' = FALSE
       ELSE pc' = "count" /\ ran' = TRUE
    /\ UNCHANGED <<archive, cfg, tmp, final, num_all_confs, num_all_atoms, procs>>

\* Ace(...): __init__ up to super().__init__(), which calls process()
\* unless all the processed files exist.
Construct ==
    /\ status \in {"idle", "failed", "killed", "open"}
    /\ runs < MaxRuns
    /\ runs' = runs + 1
    /\ status' = "running"
    /\ got' = NoGet
    /\ i_rec' = 0
    /\ num_all_confs' = 0
    /\ num_all_atoms' = 0
    /\ i_atom' = 0
    /\ step' = 0
    /\ IF FilesExist(final)
       THEN pc' = "opening" /\ ran' = FALSE
       ELSE pc' = "count" /\ ran' = TRUE
    /\ UNCHANGED <<archive, cfg, tmp, final>>
    /\ UNCHANGED procs

\* One iteration of `for data in self.sample_iter()` of the counting pass:
\* the next record, the failed assertion of the stream, or its end.
CountStep ==
    /\ status = "running" /\ pc = "count"
    /\ LET s == sample_iter(archive, cfg)
       IN  IF i_rec < Len(s.recs)
           THEN /\ num_all_confs' = num_all_confs + 1
                /\ num_all_atoms' = num_all_atoms + Len(s.recs[i_rec + 1].z)
                /\ i_rec' = i_rec + 1
                /\ UNCHANGED <<pc, status>>
           ELSE IF s.err
           THEN /\ status' = "failed"
                /\ UNCHANGED <<pc, i_rec, num_all_confs, num_all_atoms>>
           ELSE /\ pc' = NextBlock(pc)
                /\ i_rec' = 0
                /\ UNCHANGED <<status, num_all_confs, num_all_atoms>>
    /\ UNCHANGED <<archive, cfg, tmp, final, i_atom, step, ran, runs, got>>
    /\ UNCHANGED procs

\* One np.memmap(name + ".tmp", mode="w+", ...): the temp file is created
\* (or truncated) and zero-filled.  A map of no element is refused by some
\* versions of numpy (the file is left empty) and made by others.
AllocStep ==
    /\ status = "running" /\ pc = "alloc"
    /\ LET k == FileOrder[step + 1]
           c == Allocated(k, num_all_confs, num_all_atoms)
       IN  /\ tmp' = WithFile(tmp, k, c)
           /\ \/ /\ step' = (step + 1) % Len(FileOrder)
                 /\ pc' = IF step + 1 = Len(FileOrder) THEN NextBlock(pc) ELSE pc
                 /\ UNCHANGED status
              \/ /\ c = <<>>
                 /\ status' = "failed"
                 /\ UNCHANGED <<pc, step>>
    /\ UNCHANGED <<archive, cfg, final, i_rec, num_all_confs, num_all_atoms,
                   i_atom, ran, runs, got>>
    /\ UNCHANGED procs

\* One iteration of the writing loop.
WriteStep ==
    /\ status = "running" /\ pc = "write"
    /\ LET s == sample_iter(archive, cfg)
       IN  IF i_rec < Len(s.recs)
           THEN LET data == s.recs[i_rec + 1]
                    w == WriteRecord(tmp, data, i_rec, i_atom)
                IN  /\ tmp' = w.f
                    /\ IF w.ok
                       THEN /\ i_atom' = NextAtom(i_atom, data)
                            /\ i_rec' = i_rec + 1
                            /\ UNCHANGED <<pc, status>>
                       ELSE /\ status' = "failed"
                            /\ UNCHANGED <<pc, i_rec, i_atom>>
           ELSE IF s.err
           THEN /\ status' = "failed"
                /\ UNCHANGED <<pc, i_rec, i_atom, tmp>>
           ELSE /\ pc' = NextBlock(pc)
                /\ UNCHANGED <<status, i_rec, i_atom, tmp>>
    /\ UNCHANGED <<archive, cfg, final, num_all_confs, num_all_atoms, step,
                   ran, runs, got>>
    /\ UNCHANGED procs

\* idx_mm[-1] = num_all_atoms; assert i_atom == num_all_atoms.  idx_mm is
\* a map of the file itself, under whichever name the file has.
Finish ==
    /\ status = "running" /\ pc = "fin"
    /\ LET v == LastOffset(num_all_confs, num_all_atoms)
       IN  IF "idx" \in DOMAIN tmp
           THEN /\ tmp' = [tmp EXCEPT !["idx"] = SetItem(tmp["idx"], -1, v)]
                /\ UNCHANGED final
           ELSE /\ final' = [final EXCEPT !["idx"] = SetItem(final["idx"], -1, v)]
                /\ UNCHANGED tmp
    /\ IF i_atom = num_all_atoms
       THEN pc' = NextBlock(pc) /\ UNCHANGED status
       ELSE status' = "failed" /\ UNCHANGED pc
    /\ step' = 0
    /\ UNCHANGED <<archive, cfg, i_rec, num_all_confs, num_all_atoms,
                   i_atom, ran, runs, got>>
    /\ UNCHANGED procs

\* One of the eight flush() calls.
FlushStep ==
    /\ status = "running" /\ pc = "flush"
    /\ step' = (step + 1) % Len(FileOrder)
    /\ pc' = IF step + 1 = Len(FileOrder) THEN NextBlock(pc) ELSE pc
    /\ UNCHANGED <<archive, cfg, tmp, final, status, i_rec, num_all_confs,
                   num_all_atoms, i_atom, ran, runs, got>>
    /\ UNCHANGED procs

\* One of the eight os.rename(temp, final): the final name now holds the
\* temp file, replacing what it held.
RenameStep ==
    /\ status = "running" /\ pc = "rename"
    /\ LET k == FileOrder[step + 1]
       IN  /\ final' = WithFile(final, k, tmp[k])
           /\ tmp' = WithoutFile(tmp, k)
    /\ step' = (step + 1) % Len(FileOrder)
    /\ pc' = IF step + 1 = Len(FileOrder) THEN NextBlock(pc) ELSE pc
    /\ UNCHANGED <<archive, cfg, status, i_rec, num_all_confs, num_all_atoms,
                   i_atom, ran, runs, got>>
    /\ UNCHANGED procs

\* __init__ after super().__init__(): the eight read-only maps and the
\* three assertions.
Open ==
    /\ status = "running" /\ pc = "opening"
    /\ status' = IF OpenOK(final) THEN "open" ELSE "failed"
    /\ UNCHANGED <<archive, cfg, tmp, final, pc, i_rec, num_all_confs,
                   num_all_atoms, i_atom, step, ran, runs, got>>
    /\ UNCHANGED procs

\* A slip of get and of the map of the energies (mode="r+"): the energy is
\* converted to float32 in place.
Get_InPlace ==
    /\ status = "open"
    /\ \E i \in -(StoreLen(final) + 1)..StoreLen(final) :
           /\ got' = GetResult(final, i)
           /\ final' = IF InRange(final["y"], i)
                       THEN [final EXCEPT !["y"] =
                                SetItem(@, i, F32(@[Position(@, i)]))]
                       ELSE final
    /\ UNCHANGED <<archive, cfg, tmp, pc, status, i_rec, num_all_confs,
                   num_all_atoms, i_atom, step, ran, runs, procs>>

\* get(idx) on the open reader, for an index around the range of the store.
Get ==
    /\ status = "open"
    /\ \E i \in -(StoreLen(final) + 1)..StoreLen(final) :
           got' = GetResult(final, i)
    /\ UNCHANGED <<archive, cfg, tmp, final, pc, status, i_rec, num_all_confs,
                   num_all_atoms, i_atom, step, ran, runs>>
    /\ UNCHANGED procs

\* The constructing process is killed where it stands.
Kill ==
    /\ status = "running"
    /\ status' = "killed"
    /\ UNCHANGED <<archive, cfg, tmp, final, pc, i_rec, num_all_confs,
                   num_all_atoms, i_atom, step, ran, runs, got>>
    /\ UNCHANGED procs

\* The archives one edit away from archive a: a molecule appended to the
\* last file or put into a new file, the last molecule removed, or the
\* last molecule replaced.
Grow(a) ==
    {Append(a, <<m>>) : m \in Mols}
    \cup (IF a = <<>> THEN {<<<<>>>>}
          ELSE {[a EXCEPT ![Len(a)] = Append(a[Len(a)], m)] : m \in Mols})

Shrink(a) ==
    IF a = <<>> THEN {}
    ELSE IF Len(a[Len(a)]) <= 1 THEN {SubSeq(a, 1, Len(a) - 1)}
    ELSE {[a EXCEPT ![Len(a)] = SubSeq(a[Len(a)], 1, Len(a[Len(a)]) - 1)]}

\* The last molecule of the last file replaced by another.
Replace(a) ==
    IF a = <<>> THEN {}
    ELSE IF a[Len(a)] = <<>> THEN {}
    ELSE {[a EXCEPT ![Len(a)] = [a[Len(a)] EXCEPT ![Len(a[Len(a)])] = m]] :
             m \in Mols \ {a[Len(a)][Len(a[Len(a)])]}}

Edits(a) == (Grow(a) \cup Shrink(a) \cup Replace(a)) \cap Archives

\* The counting pass comes to the end of the stream, and the raw archives
\* are edited by someone else before the writing pass reads them.
ArchiveChanges ==
    /\ status = "running" /\ pc = "count"
    /\ LET s == sample_iter(archive, cfg)
       IN  i_rec = Len(s.recs) /\ ~s.err
    /\ archive' \in Edits(archive)
    /\ pc' = NextBlock(pc)
    /\ i_rec' = 0
    /\ UNCHANGED <<cfg, tmp, final, status, num_all_confs, num_all_atoms,
                   i_atom, step, ran, runs, got>>
    /\ UNCHANGED procs

\* An element of file k as a fresh file holds it: zero.
ZeroOf(k) == IF k = "dp" THEN <<0, 0, 0>> ELSE 0

\* The reader that built the store is gone, and one file of the store is
\* damaged on disk before the next reader is constructed: it loses its last
\* element, gains one, or (the index) has its first or last entry changed.
Damage ==
    /\ status = "open" /\ ran /\ runs < MaxRuns
    /\ \E k \in FileNames :
           \/ /\ Len(final[k]) > 0
              /\ final' = [final EXCEPT ![k] = SubSeq(final[k], 1, Len(final[k]) - 1)]
           \/ final' = [final EXCEPT ![k] = Append(final[k], ZeroOf(k))]
           \/ /\ k = "idx"
              /\ final' = [final EXCEPT ![k] = [final[k] EXCEPT ![1] = @ + 1]]
           \/ /\ k = "idx"
              /\ final' = [final EXCEPT ![k] = [final[k] EXCEPT ![Len(final[k])] = @ + 1]]
    /\ status' = "idle"
    /\ got' = NoGet
    /\ UNCHANGED <<archive, cfg, tmp, pc, i_rec, num_all_confs, num_all_atoms,
                   i_atom, step, ran, runs>>
    /\ UNCHANGED procs

\* The program left alone: constructions of readers, with the build when
\* the store is not there, and get.
Next ==
    \/ Construct
    \/ CountStep
    \/ AllocStep
    \/ WriteStep
    \/ Finish
    \/ FlushStep
    \/ RenameStep
    \/ Open
    \/ Get

Spec == Init /\ [][Next]_vars

\* The arguments without cutoff and hooks.
PlainConfigs ==
    {c \in Configs : c.max_gradient = None /\ c.pre_filter = NoHook
                                          /\ c.pre_transform = NoHook}

InitPlain == Init /\ cfg \in PlainConfigs

\* The program with its process killed at any step and the construction
\* tried again.
NextKill == Next \/ Kill

InitKill == InitPlain /\ cfg.subsample_molecules = 1

SpecKill == InitKill /\ [][NextKill]_vars

\* The program over a store that is damaged on disk after its build.
NextDamage == Next \/ Damage

SpecDamage == InitKill /\ [][NextDamage]_vars

\* The program over raw archives that change between the two passes.
NextMut == Next \/ ArchiveChanges

SpecMut == InitPlain /\ [][NextMut]_vars

----------------------------------------------------------------------------
(* The packed layout, written down from the record stream alone.           *)

RECURSIVE Offsets(_, _)
Offsets(recs, from) ==
    IF recs = <<>> THEN <<from>>
    ELSE <<from>> \o Offsets(Tail(recs), from + Len(Head(recs).z))

RECURSIVE TotalAtoms(_)
TotalAtoms(recs) == IF recs = <<>> THEN 0 ELSE Len(Head(recs).z) + TotalAtoms(Tail(recs))

\* The per-atom field fld of all the records, end to end.
RECURSIVE Flat(_, _)
Flat(recs, fld) == IF recs = <<>> THEN <<>> ELSE Head(recs)[fld] \o Flat(Tail(recs), fld)

\* The eight arrays a complete store of the records holds.
Packed(recs) ==
    [idx |-> Offsets(recs, 0),
     z |-> [k \in 1..TotalAtoms(recs) |-> ToInt8(Flat(recs, "z")[k])],
     pos |-> Flat(recs, "pos"),
     y |-> [i \in 1..Len(recs) |-> recs[i].y],
     neg_dy |-> Flat(recs, "neg_dy"),
     q |-> [i \in 1..Len(recs) |-> ToInt8(recs[i].q)],
     pq |-> Flat(recs, "pq"),
     dp |-> [i \in 1..Len(recs) |-> recs[i].dp]]

\* The records of the stream of the current archive and arguments.
Emitted == sample_iter(archive, cfg).recs

----------------------------------------------------------------------------
(* C1: in every store a completed build has produced, offset_index has     *)
(* C+1 entries for the C records of the stream, starts at 0, ends at the   *)
(* total atom count, which is the length of atomic_numbers, and never      *)
(* decreases.  This includes the empty stream.                             *)

C1_OffsetIndex ==
    FilesExist(final) =>
        LET idx == final["idx"]
            C == Len(Emitted)
        IN  /\ Len(idx) = C + 1
            /\ Len(final["y"]) = C
            /\ idx[1] = 0
            /\ idx[C + 1] = TotalAtoms(Emitted)
            /\ idx[C + 1] = Len(final["z"])
            /\ \A i \in 1..C : idx[i] <= idx[i + 1]

\* A completed store of three records with different atom counts.
C1_Witness ==
    /\ FilesExist(final)
    /\ Len(final["idx"]) = 4
    /\ final["idx"][2] = 2
    /\ final["idx"][4] = 4

\* A completed store of the empty stream.
C1_WitnessEmpty == FilesExist(final) /\ final["idx"] = <<0>>

----------------------------------------------------------------------------
(* C2, as claimed: in every state of a build, the state a kill leaves      *)
(* included, the eight final files all exist or none of them does.         *)

----------------------------------------------------------------------------
(* C3, as claimed: for every i in [0, C), get(i) on the finished reader    *)
(* returns the i-th emitted record, every field identical.                 *)

C3_RoundTripExact ==
    status = "open" =>
        \A i \in 0..(Len(Emitted) - 1) :
            /\ GetResult(final, i).err = "ok"
            /\ GetResult(final, i).data = Emitted[i + 1]

(* C3, amended: get(i) returns the i-th emitted record with positions,     *)
(* negative gradient, partial charges and dipole identical; the energy is  *)
(* the emitted float64 rounded to float32 (identical when it is a float32  *)
(* value); atomic numbers and total charge are identical when they lie in  *)
(* -128..127 and otherwise come back reduced modulo 256 into that range.   *)

IsFloat32(v) == v % 2 = 0

SameModInt8(g, r) ==
    /\ g \in -128..127
    /\ (g - r) % 256 = 0
    /\ (r \in -128..127 => g = r)

C3_RoundTrip ==
    status = "open" =>
        \A i \in 0..(Len(Emitted) - 1) :
            LET g == GetResult(final, i)
                r == Emitted[i + 1]
            IN  /\ g.err = "ok"
                /\ g.data.pos = r.pos
                /\ g.data.neg_dy = r.neg_dy
                /\ g.data.pq = r.pq
                /\ g.data.dp = r.dp
                /\ IsFloat32(g.data.y)
                /\ Abs(g.data.y - r.y) <= 1
                /\ (IsFloat32(r.y) => g.data.y = r.y)
                /\ Len(g.data.z) = Len(r.z)
                /\ \A k \in 1..Len(r.z) : SameModInt8(g.data.z[k], r.z[k])
                /\ SameModInt8(g.data.q, r.q)

\* get(i) has returned a record past the first whose energy is not the
\* emitted one.
C3_Witness ==
    /\ status = "open"
    /\ got.err = "ok"
    /\ got.idx >= 1
    /\ got.idx < Len(Emitted)
    /\ got.data.y # Emitted[got.idx + 1].y
    /\ got.data.pos = Emitted[got.idx + 1].pos

----------------------------------------------------------------------------
(* C4: for every i in [0, C), each per-atom field of get(i) (atomic        *)
(* numbers, positions, negative gradient, partial charges) has exactly     *)
(* offset_index[i+1] - offset_index[i] atoms, which is the atom count of   *)
(* the i-th emitted record.                                                *)

C4_AtomCount ==
    status = "open" =>
        /\ StoreLen(final) = Len(Emitted)
        /\ \A i \in 0..(StoreLen(final) - 1) :
               LET g == GetResult(final, i)
                   n == final["idx"][i + 2] - final["idx"][i + 1]
               IN  /\ g.err = "ok"
                   /\ Len(g.data.z) = n
                   /\ Len(g.data.pos) = n
                   /\ Len(g.data.neg_dy) = n
                   /\ Len(g.data.pq) = n
                   /\ n = Len(Emitted[i + 1].z)

\* get(i) has returned a record of two atoms that is not the first of the
\* store.
C4_Witness ==
    /\ status = "open"
    /\ got.err = "ok"
    /\ got.idx >= 1
    /\ got.idx < StoreLen(final)
    /\ final["idx"][got.idx + 1] > 0
    /\ Len(got.data.z) = 2

----------------------------------------------------------------------------
(* C5: when the eight final files all exist, constructing a reader does    *)
(* not invoke process (the stream is not iterated, no temp file is made)   *)
(* and leaves the store files as they are, up to and through the maps and  *)
(* assertions of __init__.                                                 *)

C5_Idempotent ==
    [][/\ (DOMAIN final = FileNames /\ runs' = runs + 1) =>
            (pc' = "opening" /\ ~ran' /\ final' = final /\ tmp' = tmp)
       /\ (status = "running" /\ ~ran) =>
            (pc' = "opening" /\ ~ran' /\ final' = final /\ tmp' = tmp
             /\ i_rec' = 0 /\ num_all_confs' = 0 /\ num_all_atoms' = 0)]_vars

\* A second construction has found the store of the first, has not run
\* process and has opened the reader.
C5_Witness ==
    /\ runs = 2
    /\ ~ran
    /\ status = "open"
    /\ StoreLen(final) >= 2
    /\ tmp = NoFiles

----------------------------------------------------------------------------
(* C6: a build that aborts on a failed assertion (of the stream in either  *)
(* pass, or of the atom count after the writing pass) has renamed          *)
(* nothing: it stands before the flushes, and no final file exists.        *)

C6_FailedBuildPublishesNothing ==
    (status = "failed" /\ pc # "opening") =>
        /\ pc \in {"count", "alloc", "write", "fin"}
        /\ DOMAIN final = {}

\* The atom-count assertion has failed after a writing pass over an edited
\* archive, with the eight temp files left behind.
C6_Witness ==
    /\ status = "failed"
    /\ pc = "fin"
    /\ i_atom # num_all_atoms
    /\ DOMAIN tmp = FileNames
    /\ DOMAIN final = {}

\* An assertion of the stream has failed in the writing pass.
C6_WitnessWrite ==
    /\ status = "failed"
    /\ pc = "write"
    /\ sample_iter(archive, cfg).err
    /\ i_rec = Len(Emitted)
    /\ DOMAIN final = {}

----------------------------------------------------------------------------
(* C7: on an open reader over a store of C conformations, get(i) fails     *)
(* with a bounds error for every i < 0 and every i >= C, and succeeds for  *)
(* every i in [0, C).                                                      *)

C7_BoundsChecked ==
    status = "open" =>
        \A i \in -(StoreLen(final) + 2)..(StoreLen(final) + 1) :
            (i < 0 \/ i >= StoreLen(final)) <=> GetResult(final, i).err = "IndexError"

----------------------------------------------------------------------------
(* C8, as claimed: a reader never opens on a store that violates           *)
(* len(offset_index) == C+1, offset_index[0] == 0, offset_index[-1] ==     *)
(* len(atomic_numbers), or the length consistency of the seven data arrays *)
(* with the index (positions, neg_gradients and partial_charges of         *)
(* total_atom_count rows; energies, total_charges and dipoles of C rows).  *)

Consistent(dir) ==
    /\ Len(dir["idx"]) = Len(dir["y"]) + 1
    /\ dir["idx"][1] = 0
    /\ dir["idx"][Len(dir["idx"])] = Len(dir["z"])
    /\ Len(dir["pos"]) = Len(dir["z"])
    /\ Len(dir["neg_dy"]) = Len(dir["z"])
    /\ Len(dir["pq"]) = Len(dir["z"])
    /\ Len(dir["q"]) = Len(dir["y"])
    /\ Len(dir["dp"]) = Len(dir["y"])

C8_OpenValidates == status = "open" => Consistent(final)

(* C8, amended: opening fails exactly when one of the eight files is       *)
(* empty, len(offset_index) != C+1 for C = len(energies), offset_index[0]  *)
(* != 0, offset_index[-1] != len(atomic_numbers), positions or             *)
(* neg_gradients holds fewer than len(atomic_numbers) rows, or dipoles     *)
(* fewer than C rows.  The lengths of total_charges and partial_charges    *)
(* are not checked, and longer positions, neg_gradients and dipoles files  *)
(* are accepted.                                                           *)

Refused(dir) ==
    \/ \E k \in FileNames : Len(dir[k]) = 0
    \/ Len(dir["idx"]) # Len(dir["y"]) + 1
    \/ dir["idx"][1] # 0
    \/ dir["idx"][Len(dir["idx"])] # Len(dir["z"])
    \/ Len(dir["pos"]) < Len(dir["z"])
    \/ Len(dir["neg_dy"]) < Len(dir["z"])
    \/ Len(dir["dp"]) < Len(dir["y"])

C8_OpenChecks ==
    (pc = "opening" /\ status \in {"open", "failed"}) =>
        (status = "failed" <=> Refused(final))

\* Opening has failed on a store of two conformations whose index does
\* not start at 0.
C8_Witness ==
    /\ pc = "opening"
    /\ status = "failed"
    /\ ~ran
    /\ Len(final["y"]) = 2
    /\ Len(final["idx"]) = 3
    /\ final["idx"][1] # 0

\* A reader has opened on a store whose partial_charges are too short.
C8_WitnessAccepted ==
    /\ status = "open"
    /\ Len(final["pq"]) < Len(final["z"])

----------------------------------------------------------------------------
(* C9: with no cutoff and no hooks, the store of a completed build holds   *)
(* exactly the conformations of the kept molecules that have an energy: C  *)
(* is the number of conformations of kept molecules minus the number of    *)
(* those without energy, and the total atom count is that of the ones      *)
(* with energy.  Molecule A (2 atoms, 1 conformation with energy) and      *)
(* molecule B (3 atoms, 1 conformation without) give offset_index [0, 2].  *)

\* The conformations of the kept molecules, as <<file, molecule, conformation>>.
KeptConfs ==
    {t \in UNION {UNION {{<<f, m, c>> : c \in 1..Len(archive[f][m].conformations)} :
                          m \in 1..Len(archive[f])} : f \in 1..Len(archive)} :
        (t[2] - 1) % cfg.subsample_molecules = 0}

ConfAt(t) == archive[t[1]][t[2]].conformations[t[3]]

RECURSIVE AtomsOf(_)
AtomsOf(S) ==
    IF S = {} THEN 0
    ELSE LET t == CHOOSE x \in S : TRUE
         IN  Len(archive[t[1]][t[2]].atomic_numbers) + AtomsOf(S \ {t})

C9_MissingEnergySkipped ==
    (FilesExist(final) /\ cfg \in PlainConfigs) =>
        LET absent == {t \in KeptConfs : ~ConfAt(t).has_energy}
        IN  /\ StoreLen(final) = Cardinality(KeptConfs) - Cardinality(absent)
            /\ Len(final["z"]) = AtomsOf(KeptConfs \ absent)
            /\ (archive = <<<<MolA, MolB>>>> /\ cfg.subsample_molecules = 1) =>
                   final["idx"] = <<0, 2>>

\* The store of molecule A and molecule B has been built and opened.
C9_Witness ==
    /\ status = "open"
    /\ archive = <<<<MolA, MolB>>>>
    /\ cfg \in PlainConfigs
    /\ cfg.subsample_molecules = 1
    /\ StoreLen(final) = 1
    /\ final["idx"] = <<0, 2>>

----------------------------------------------------------------------------
(* C10: for every cutoff T a caller can pass as max_gradient, 0 included,  *)
(* no conformation whose largest per-atom negative-gradient magnitude is   *)
(* above T is in the store built with max_gradient = T.                    *)

C10_CutoffApplied ==
    (status = "open" /\ cfg.max_gradient # None /\ cfg.pre_transform = NoHook) =>
        \A i \in 0..(StoreLen(final) - 1) :
            MaxNorm(GetResult(final, i).data.neg_dy) <= cfg.max_gradient[1]

----------------------------------------------------------------------------
(* Archives of many molecules, for the subsampling stride.                 *)

MaxFileMols == 10   \* molecules in the archives of the stride runs
MaxStrideK == 3     \* largest stride of the stride runs

\* The molecule numbered p: one atom of atomic number p, one good
\* conformation, so that a record tells which molecule it came from.
NumberedMol(p) ==
    Mol(<<p>>, <<0>>, <<Conf(TRUE, GoodUnits, <<2>>, 2, <<0>>, <<0>>, <<0, 0, 0>>)>>)

\* Molecules 1..n in one file, or in two files cut after molecule c.
StrideArchives ==
    UNION {{<<[p \in 1..n |-> NumberedMol(p)]>>}
           \cup {<<[p \in 1..c |-> NumberedMol(p)],
                   [p \in 1..(n - c) |-> NumberedMol(c + p)]>> : c \in 1..(n - 1)} :
           n \in 0..MaxFileMols}

InitStride ==
    /\ archive \in StrideArchives
    /\ cfg \in [max_gradient : {None}, subsample_molecules : 1..MaxStrideK,
                 pre_filter : {NoHook}, pre_transform : {NoHook}]
    /\ tmp = NoFiles
    /\ final = NoFiles
    /\ pc = "count"
    /\ status = "idle"
    /\ i_rec = 0
    /\ num_all_confs = 0
    /\ num_all_atoms = 0
    /\ i_atom = 0
    /\ step = 0
    /\ ran = FALSE
    /\ runs = 0
    /\ got = NoGet
    /\ procs = NoProcs

\* The program over the numbered archives.
SpecStride == InitStride /\ [][Next]_vars

----------------------------------------------------------------------------
(* C11: for every stride k >= 1, the store holds exactly the molecules     *)
(* whose 0-based position within their own file is a multiple of k, in     *)
(* archive order; with k = 1 that is every molecule, and with one file of  *)
(* 10 molecules and k = 3 the molecules at positions 0, 3, 6, 9.           *)

\* The numbers of the molecules of file f at the positions that are
\* multiples of k, in file order.
RECURSIVE MultiplesOf(_, _, _)
MultiplesOf(f, k, pos) ==
    IF pos >= Len(f) THEN <<>>
    ELSE <<f[pos + 1].atomic_numbers[1]>> \o MultiplesOf(f, k, pos + k)

RECURSIVE Contributors(_, _)
Contributors(a, k) ==
    IF a = <<>> THEN <<>>
    ELSE MultiplesOf(Head(a), k, 0) \o Contributors(Tail(a), k)

C11_Subsampling ==
    (FilesExist(final) /\ archive \in StrideArchives) =>
        LET k == cfg.subsample_molecules
        IN  /\ final["z"] = Contributors(archive, k)
            /\ [i \in 1..Len(Emitted) |-> Emitted[i].z[1]] = Contributors(archive, k)
            /\ k = 1 => Len(final["z"]) = SumSeq([f \in 1..Len(archive) |-> Len(archive[f])])
            /\ (Len(archive) = 1 /\ Len(archive[1]) = 10 /\ k = 3) =>
                   final["z"] = <<1, 4, 7, 10>>

\* The store of one file of 10 molecules has been built with stride 3 and
\* opened.
C11_Witness ==
    /\ status = "open"
    /\ Len(archive) = 1
    /\ Len(archive[1]) = 10
    /\ cfg.subsample_molecules = 3
    /\ final["z"] = <<1, 4, 7, 10>>

\* The store of two files of 3 molecules each has been built with stride 2:
\* the count of positions has started again in the second file.
C11_WitnessTwoFiles ==
    /\ status = "open"
    /\ Len(archive) = 2
    /\ Len(archive[1]) = 3
    /\ Len(archive[2]) = 3
    /\ cfg.subsample_molecules = 2
    /\ final["z"] = <<1, 3, 4, 6>>

----------------------------------------------------------------------------
(* C12: when a conformation of a kept molecule has an energy and a wrong   *)
(* unit tag or shape, the stream fails, so the build never gets past its   *)
(* counting pass: no temp file is made, no final file is published and no  *)
(* reader opens, whatever the gradient cutoff and the filter hook.         *)

\* The kept conformations with an energy that break a unit or shape
\* assertion.
Invalid ==
    {t \in KeptConfs :
        /\ ConfAt(t).has_energy
        /\ ~Valid(archive[t[1]][t[2]].atomic_numbers, ConfAt(t))}

C12_ViolationAborts ==
    (cfg.subsample_molecules > 0 /\ Invalid # {}) =>
        /\ sample_iter(archive, cfg).err
        /\ pc = "count"
        /\ status # "open"
        /\ tmp = NoFiles
        /\ final = NoFiles

\* A build has failed in its counting pass, after a record was counted, on
\* the wrong forces unit of a one-atom conformation with forces above the
\* cutoff, with the filter hook for more than one atom supplied.
C12_Witness ==
    /\ status = "failed"
    /\ pc = "count"
    /\ num_all_confs >= 1
    /\ cfg.max_gradient = Some(2)
    /\ cfg.pre_filter = "multi_atom"
    /\ archive = <<<<MolA, MolE>>>>

----------------------------------------------------------------------------
(* C13: a build whose writing pass has seen another stream than its        *)
(* counting pass (another number of conformations or another total atom    *)
(* count) publishes nothing: whenever the build of the current reader has  *)
(* published the eight files, the counters of its counting pass are those  *)
(* of the stream of its writing pass, and the files hold exactly that      *)
(* stream, every offset and every slot written from a record of it.        *)

C13_TwoPassConsistency ==
    (FilesExist(final) /\ ran) =>
        /\ num_all_confs = Len(Emitted)
        /\ num_all_atoms = TotalAtoms(Emitted)
        /\ final = Packed(Emitted)

----------------------------------------------------------------------------
(* Two constructions at once, in two processes, with the same arguments    *)
(* and the same root.  Both use the same names: processed_paths for the    *)
(* final files and the same names + ".tmp" for the temp files.  A memmap   *)
(* of a process stays on the file it was made on: when the file is renamed *)
(* the map follows it, and when another file is renamed over it the map    *)
(* is left on a file that no name leads to.                                *)

Procs == {1, 2}

\* The variables of the single construction, which stand still here.
solo == <<pc, status, i_rec, num_all_confs, num_all_atoms, i_atom, step, ran,
          runs, got>>

\* Where the memmap of a process for file k is: not made yet ("none"), on
\* the file under the temp name, on the file under the final name, or on
\* an unlinked file ("gone").
IdleProc ==
    [pc |-> "count", status |-> "idle", i_rec |-> 0, num_all_confs |-> 0,
     num_all_atoms |-> 0, i_atom |-> 0, step |-> 0,
     at |-> [k \in FileNames |-> "none"]]

\* The contents of the eight files as the memmaps of process state pr see
\* them.
View(pr) ==
    [k \in FileNames |->
        CASE pr.at[k] = "tmp" -> tmp[k]
          [] pr.at[k] = "final" -> final[k]
          [] OTHER -> Allocated(k, pr.num_all_confs, pr.num_all_atoms)]

\* The directory dir (loc is its kind) after process state pr has left the
\* contents v in its memmaps.
Stored(dir, loc, pr, v) ==
    [k \in DOMAIN dir |-> IF pr.at[k] = loc THEN v[k] ELSE dir[k]]

\* The archives of the concurrent runs: no file, molecule A, molecule C.
ConcArchives == {<<>>, <<<<MolA>>>>, <<<<MolC>>>>}

InitConc ==
    /\ archive \in ConcArchives
    /\ cfg = [max_gradient |-> None, subsample_molecules |-> 1,
              pre_filter |-> NoHook, pre_transform |-> NoHook]
    /\ tmp = NoFiles
    /\ final = NoFiles
    /\ pc = "count"
    /\ status = "idle"
    /\ i_rec = 0
    /\ num_all_confs = 0
    /\ num_all_atoms = 0
    /\ i_atom = 0
    /\ step = 0
    /\ ran = FALSE
    /\ runs = 0
    /\ got = NoGet
    /\ procs = [p \in Procs |-> IdleProc]

\* Ace(...) in process p: super().__init__() calls process() unless all
\* the processed files exist.
ProcConstruct(p) ==
    /\ procs[p].status = "idle"
    /\ procs' = [procs EXCEPT ![p] =
                    [@ EXCEPT !.status = "running",
                              !.pc = IF FilesExist(final) THEN "opening" ELSE "count"]]
    /\ UNCHANGED <<archive, cfg, tmp, final, solo>>

\* One iteration of the counting pass in process p.
ProcCountStep(p) ==
    /\ procs[p].status = "running" /\ procs[p].pc = "count"
    /\ LET pr == procs[p]
           s == sample_iter(archive, cfg)
       IN  procs' = [procs EXCEPT ![p] =
               IF pr.i_rec < Len(s.recs)
               THEN [pr EXCEPT !.num_all_confs = @ + 1,
                               !.num_all_atoms = @ + Len(s.recs[pr.i_rec + 1].z),
                               !.i_rec = @ + 1]
               ELSE IF s.err THEN [pr EXCEPT !.status = "failed"]
               ELSE [pr EXCEPT !.pc = NextBlock(pr.pc), !.i_rec = 0]]
    /\ UNCHANGED <<archive, cfg, tmp, final, solo>>

\* One np.memmap(name + ".tmp", mode="w+", ...) in process p: the file
\* under the temp name is created, or truncated and zero-filled if it is
\* there, whoever made it.
ProcAllocStep(p) ==
    /\ procs[p].status = "running" /\ procs[p].pc = "alloc"
    /\ LET pr == procs[p]
           k == FileOrder[pr.step + 1]
           c == Allocated(k, pr.num_all_confs, pr.num_all_atoms)
       IN  /\ tmp' = WithFile(tmp, k, c)
           /\ \/ procs' = [procs EXCEPT ![p] =
                     [pr EXCEPT !.at[k] = "tmp",
                                !.step = (pr.step + 1) % Len(FileOrder),
                                !.pc = IF pr.step + 1 = Len(FileOrder)
                                       THEN NextBlock(pr.pc) ELSE pr.pc]]
              \/ /\ c = <<>>
                 /\ procs' = [procs EXCEPT ![p] = [pr EXCEPT !.status = "failed"]]
    /\ UNCHANGED <<archive, cfg, final, solo>>

\* One iteration of the writing loop in process p, through its memmaps.
ProcWriteStep(p) ==
    /\ procs[p].status = "running" /\ procs[p].pc = "write"
    /\ LET pr == procs[p]
           s == sample_iter(archive, cfg)
       IN  IF pr.i_rec < Len(s.recs)
           THEN LET data == s.recs[pr.i_rec + 1]
                    w == WriteRecord(View(pr), data, pr.i_rec, pr.i_atom)
                IN  /\ tmp' = Stored(tmp, "tmp", pr, w.f)
                    /\ final' = Stored(final, "final", pr, w.f)
                    /\ procs' = [procs EXCEPT ![p] =
                           IF w.ok
                           THEN [pr EXCEPT !.i_atom = NextAtom(pr.i_atom, data),
                                           !.i_rec = @ + 1]
                           ELSE [pr EXCEPT !.status = "failed"]]
           ELSE /\ procs' = [procs EXCEPT ![p] =
                       IF s.err THEN [pr EXCEPT !.status = "failed"]
                       ELSE [pr EXCEPT !.pc = NextBlock(pr.pc)]]
                /\ UNCHANGED <<tmp, final>>
    /\ UNCHANGED <<archive, cfg, solo>>

\* idx_mm[-1] = num_all_atoms; assert i_atom == num_all_atoms, in process p.
ProcFinish(p) ==
    /\ procs[p].status = "running" /\ procs[p].pc = "fin"
    /\ LET pr == procs[p]
           v == [View(pr) EXCEPT !["idx"] =
                    SetItem(@, -1, LastOffset(pr.num_all_confs, pr.num_all_atoms))]
       IN  /\ tmp' = Stored(tmp, "tmp", pr, v)
           /\ final' = Stored(final, "final", pr, v)
           /\ procs' = [procs EXCEPT ![p] =
                  IF pr.i_atom = pr.num_all_atoms
                  THEN [pr EXCEPT !.pc = NextBlock(pr.pc), !.step = 0]
                  ELSE [pr EXCEPT !.status = "failed"]]
    /\ UNCHANGED <<archive, cfg, solo>>

\* The eight flush() calls of process p.
ProcFlush(p) ==
    /\ procs[p].status = "running" /\ procs[p].pc = "flush"
    /\ procs' = [procs EXCEPT ![p] = [@ EXCEPT !.pc = NextBlock(procs[p].pc), !.step = 0]]
    /\ UNCHANGED <<archive, cfg, tmp, final, solo>>

\* One os.rename(temp, final) in process p.  It fails (FileNotFoundError)
\* when no file has the temp name; otherwise the memmaps of every process
\* on the temp file are now on the final file, and those on the file that
\* had the final name are on an unlinked file.
ProcRenameStep(p) ==
    /\ procs[p].status = "running" /\ procs[p].pc = "rename"
    /\ LET pr == procs[p]
           k == FileOrder[pr.step + 1]
       IN  IF k \in DOMAIN tmp
           THEN /\ final' = WithFile(final, k, tmp[k])
                /\ tmp' = WithoutFile(tmp, k)
                /\ procs' = [r \in Procs |->
                       LET moved == [procs[r] EXCEPT !.at[k] =
                                        CASE @ = "tmp" -> "final"
                                          [] @ = "final" -> "gone"
                                          [] OTHER -> @]
                       IN  IF r = p
                           THEN [moved EXCEPT !.step = (pr.step + 1) % Len(FileOrder),
                                              !.pc = IF pr.step + 1 = Len(FileOrder)
                                                     THEN NextBlock(pr.pc) ELSE pr.pc]
                           ELSE moved]
           ELSE /\ procs' = [procs EXCEPT ![p] = [pr EXCEPT !.status = "failed"]]
                /\ UNCHANGED <<tmp, final>>
    /\ UNCHANGED <<archive, cfg, solo>>

\* The maps and assertions of __init__ in process p.
ProcOpen(p) ==
    /\ procs[p].status = "running" /\ procs[p].pc = "opening"
    /\ procs' = [procs EXCEPT ![p] =
                    [@ EXCEPT !.status = IF OpenOK(final) THEN "open" ELSE "failed"]]
    /\ UNCHANGED <<archive, cfg, tmp, final, solo>>

NextConc ==
    \E p \in Procs :
        \/ ProcConstruct(p)
        \/ ProcCountStep(p)
        \/ ProcAllocStep(p)
        \/ ProcWriteStep(p)
        \/ ProcFinish(p)
        \/ ProcFlush(p)
        \/ ProcRenameStep(p)
        \/ ProcOpen(p)

SpecConc == InitConc /\ [][NextConc]_vars

----------------------------------------------------------------------------
(* C14: two concurrent constructions over an archive that one construction *)
(* alone builds do not interfere: neither fails; the temp files a process  *)
(* has finished writing hold the whole stream for as long as they are      *)
(* under their temp names; and once both readers are open the store is     *)
(* the packed stream.                                                      *)

\* The archive and arguments give a stream that a single build publishes.
Buildable == ~sample_iter(archive, cfg).err /\ Len(Emitted) > 0

C14_NoInterference ==
    (procs # NoProcs /\ Buildable) =>
        /\ \A p \in Procs : procs[p].status # "failed"
        /\ \A p \in Procs : \A k \in FileNames :
               (procs[p].status = "running" /\ procs[p].pc \in {"flush", "rename"}
                /\ procs[p].at[k] = "tmp") => tmp[k] = Packed(Emitted)[k]
        /\ (\A p \in Procs : procs[p].status = "open") => final = Packed(Emitted)

----------------------------------------------------------------------------
(* C15: once the eight files of a completed build are in place, no step of *)
(* a reader (the construction of a further reader with the same            *)
(* arguments, its maps and assertions, get with any index) changes the     *)
(* contents of any of them, and none makes a temp file.                    *)

C15_Immutable ==
    [][DOMAIN final = FileNames => (final' = final /\ tmp' = tmp)]_vars

\* A second reader has opened on the store of the first and get has
\* returned a record from it.
C15_Witness ==
    /\ runs = 2
    /\ ~ran
    /\ status = "open"
    /\ got.err = "ok"
    /\ got.idx >= 1
    /\ final = Packed(Emitted)

----------------------------------------------------------------------------
(* Readers constructed one after another with other hooks.                 *)

\* arg_hash: the fingerprint in the names of the store files is made of
\* paths, max_gradient and subsample_molecules; the hooks are not in it.
Fingerprint(c) == <<c.max_gradient, c.subsample_molecules>>

\* The reader is dropped and the next construction, in the same root and
\* over the same paths, is given other hooks: its processed_file_names
\* are those of the store already there.
Reconfigure ==
    /\ status \in {"open", "failed"}
    /\ runs < MaxRuns
    /\ \E c \in Configs :
           /\ c # cfg
           /\ Fingerprint(c) = Fingerprint(cfg)
           /\ cfg' = c
    /\ status' = "idle"
    /\ got' = NoGet
    /\ UNCHANGED <<archive, tmp, final, pc, i_rec, num_all_confs, num_all_atoms,
                   i_atom, step, ran, runs, procs>>

NextHooks == Next \/ Reconfigure

InitHooks == Init /\ cfg.max_gradient = None /\ cfg.subsample_molecules = 1

SpecHooks == InitHooks /\ [][NextHooks]_vars

----------------------------------------------------------------------------
(* C16: an open reader constructed with arguments X returns only records   *)
(* of the stream under X: the store has as many conformations as that      *)
(* stream, get(i) has the atoms, positions, gradients, charges and dipole  *)
(* of its i-th record, and with a filter hook and no transform hook every  *)
(* record returned is one the hook accepts, whatever readers were          *)
(* constructed in the root before.                                         *)

C16_FingerprintDeterminesContent ==
    status = "open" =>
        /\ StoreLen(final) = Len(Emitted)
        /\ \A i \in 0..(StoreLen(final) - 1) :
               LET g == GetResult(final, i)
               IN  /\ g.err = "ok"
                   /\ i < Len(Emitted) =>
                          /\ Len(g.data.z) = Len(Emitted[i + 1].z)
                          /\ g.data.pos = Emitted[i + 1].pos
                          /\ g.data.neg_dy = Emitted[i + 1].neg_dy
                          /\ g.data.pq = Emitted[i + 1].pq
                          /\ g.data.dp = Emitted[i + 1].dp
                   /\ (cfg.pre_filter # NoHook /\ cfg.pre_transform = NoHook) =>
                          ApplyFilter(cfg.pre_filter, g.data)

----------------------------------------------------------------------------
(* A construction that is interrupted, and the next one that is not.       *)

\* The constructing process is killed, with a construction still to come.
KillBeforeLast == runs < MaxRuns /\ Kill

NextRetry == Next \/ KillBeforeLast

\* A construction that is not killed runs on to its end: the steps of the
\* program are taken as long as there is one to take.
\* The archives of the retried runs: no file, molecule A, molecule C,
\* molecules A and C in two files, and molecule A before molecule E, whose
\* forces have a wrong unit.
RetryArchives ==
    {<<>>, <<<<MolA>>>>, <<<<MolC>>>>, <<<<MolA>>, <<MolC>>>>, <<<<MolA, MolE>>>>}

InitRetry == InitKill /\ archive \in RetryArchives

SpecRetry == InitRetry /\ [][NextRetry]_vars /\ WF_vars(Next)

----------------------------------------------------------------------------
(* C17: after a construction is killed, at whatever step and whatever      *)
(* temp and final files it leaves, a later construction with the same      *)
(* arguments that is not killed ends with the reader open on the complete  *)
(* store of the stream, the one an uninterrupted first build publishes,    *)
(* and with no temp file left (when the stream is one a single build can   *)
(* publish; otherwise it ends failed as the first build would have).       *)

Recovered ==
    IF Buildable
    THEN status = "open" /\ final = Packed(Emitted) /\ tmp = NoFiles
    ELSE status = "failed"

C17_RetryRecovers == (status = "killed") ~> Recovered

\* A construction has run process() again after a killed one and has
\* opened its reader on the complete store of two or more conformations.
C17_Witness ==
    /\ runs = 2
    /\ ran
    /\ status = "open"
    /\ Buildable
    /\ Len(Emitted) >= 2
    /\ final = Packed(Emitted)
    /\ tmp = NoFiles

----------------------------------------------------------------------------
(* Builds with both hooks, one of them a transform that is not idempotent. *)

OrderTransforms == PreTransforms \cup {"shift_energy"}

InitOrder ==
    /\ archive \in Archives
    /\ cfg \in [max_gradient : {None, Some(2)}, subsample_molecules : {1},
                 pre_filter : PreFilters, pre_transform : OrderTransforms]
    /\ tmp = NoFiles
    /\ final = NoFiles
    /\ pc = "count"
    /\ status = "idle"
    /\ i_rec = 0
    /\ num_all_confs = 0
    /\ num_all_atoms = 0
    /\ i_atom = 0
    /\ step = 0
    /\ ran = FALSE
    /\ runs = 0
    /\ got = NoGet
    /\ procs = NoProcs

SpecOrder == InitOrder /\ [][Next]_vars

----------------------------------------------------------------------------
(* C18: the stream is the conformations that pass validation and the       *)
(* gradient cutoff, those of them the filter hook accepts as they are      *)
(* (untransformed), each with the transform hook applied once; and the     *)
(* counters of the counting pass and the offsets and energies of the       *)
(* store are those of the transformed records.                             *)

\* The records that pass validation and the cutoff, before the hooks.
Candidates ==
    sample_iter(archive, [cfg EXCEPT !.pre_filter = NoHook,
                                     !.pre_transform = NoHook]).recs

Accepts(r) == cfg.pre_filter = NoHook \/ ApplyFilter(cfg.pre_filter, r)

Expected ==
    LET accepted == SelectSeq(Candidates, Accepts)
    IN  [i \in 1..Len(accepted) |->
            IF cfg.pre_transform = NoHook THEN accepted[i]
            ELSE ApplyTransform(cfg.pre_transform, accepted[i])]

C18_HookOrder ==
    (FilesExist(final) /\ ran) =>
        /\ Emitted = Expected
        /\ num_all_confs = Len(Expected)
        /\ num_all_atoms = TotalAtoms(Expected)
        /\ final["idx"] = Offsets(Expected, 0)
        /\ final["y"] = [i \in 1..Len(Expected) |-> Expected[i].y]

\* A store has been built and opened with both hooks: the two atoms of
\* molecule A have passed the filter and the transform has left one of
\* them, and molecule C of one atom has been filtered out.
C18_Witness ==
    /\ status = "open"
    /\ ran
    /\ archive = <<<<MolA, MolC>>>>
    /\ cfg.pre_filter = "multi_atom"
    /\ cfg.pre_transform = "first_atom"
    /\ final["idx"] = <<0, 1>>

\* A store has been built and opened with the transform that shifts the
\* energy: the energy 2 of molecule A is stored as 4.
C18_WitnessOnce ==
    /\ status = "open"
    /\ ran
    /\ archive = <<<<MolA>>>>
    /\ cfg.pre_transform = "shift_energy"
    /\ final["y"] = <<4>>

====
